---- MODULE Spec2Model ----
(***************************************************************************)
(* Rendering of styled fragments with ANSI escape codes (src/display.rs).  *)
(*                                                                         *)
(* ANSIDisplaySlice::fmt streams a slice of ANSIDisplay values to a sink,  *)
(* writing a prefix for the first fragment, the output of                  *)
(* Difference::between for every window of two fragments, and a trailing   *)
(* RESET when the last style is not plain.  ANSIDisplay::fmt renders one   *)
(* fragment as prefix, value, suffix.  Every write to the sink may fail    *)
(* and the `?` operator returns the error at once.                         *)
(*                                                                         *)
(* The output is a sequence of tokens: "CSI" stands for the two bytes      *)
(* ESC '[', the other tokens are the bytes of the escape sequence or the   *)
(* characters of a value.                                                  *)
(***************************************************************************)
EXTENDS Naturals, Sequences, FiniteSets

\* Longest slice handed to ANSIDisplaySlice::fmt.
MaxLen == 3

(***************************************************************************)
(* Style (style.rs, not part of src/): attribute bits and a foreground     *)
(* colour.                                                                 *)
(***************************************************************************)
Colours == {"Red", "Blue"}

Style == [is_bold : BOOLEAN, is_underline : BOOLEAN,
          foreground : Colours \cup {"None"}]

\* Style::default()
default == [is_bold |-> FALSE, is_underline |-> FALSE, foreground |-> "None"]

\* Style::is_plain: no attribute at all.
is_plain(s) == s = default

\* The attributes of a style, as a set.
Attrs(s) ==
    (IF s.is_bold THEN {"bold"} ELSE {})
    \cup (IF s.is_underline THEN {"underline"} ELSE {})
    \cup (IF s.foreground = "None" THEN {} ELSE {s.foreground})

\* ansi::RESET, the universal reset "\x1B[0m".
RESET == <<"CSI", "0", "m">>

\* The SGR code of a foreground colour.
ColourCode(c) == IF c = "Red" THEN "31" ELSE "34"

\* The SGR codes a style turns on, in the order they are written.
Codes(s) ==
    (IF s.is_bold THEN <<"1">> ELSE <<>>)
    \o (IF s.is_underline THEN <<"4">> ELSE <<>>)
    \o (IF s.foreground = "None" THEN <<>> ELSE <<ColourCode(s.foreground)>>)

RECURSIVE Join(_)
\* The codes separated by ';'.
Join(cs) ==
    IF Len(cs) <= 1 THEN cs
    ELSE <<Head(cs), ";">> \o Join(Tail(cs))

\* Style::prefix: the escape sequence that turns the style's attributes on;
\* empty for the plain style.
prefix(s) ==
    IF is_plain(s) THEN <<>>
    ELSE <<"CSI">> \o Join(Codes(s)) \o <<"m">>

\* Style::suffix: the universal reset; empty for the plain style.
suffix(s) == IF is_plain(s) THEN <<>> ELSE RESET

(***************************************************************************)
(* Difference::between (difference.rs, not part of src/), after the        *)
(* decision rule of spec.md 4.1: equal styles make no difference; a next   *)
(* style that keeps every attribute of the first one and adds some is      *)
(* ExtraStyles of what it adds; a dropped attribute or a changed colour is *)
(* a Reset.                                                                *)
(***************************************************************************)
NoDifference == [tag |-> "NoDifference"]
Reset == [tag |-> "Reset"]
ExtraStyles(s) == [tag |-> "ExtraStyles", style |-> s]

\* Difference::between with a change of colour taken for an addition.
betweenColourAdded(first, next) ==
    IF first = next THEN NoDifference
    ELSE IF first.is_bold /\ ~next.is_bold THEN Reset
    ELSE IF first.is_underline /\ ~next.is_underline THEN Reset
    ELSE IF first.foreground # "None" /\ next.foreground = "None" THEN Reset
    ELSE ExtraStyles(
           [is_bold |-> first.is_bold # next.is_bold,
            is_underline |-> first.is_underline # next.is_underline,
            foreground |-> IF first.foreground # next.foreground
                           THEN next.foreground ELSE "None"])

between(first, next) ==
    IF first = next THEN NoDifference
    ELSE IF first.is_bold /\ ~next.is_bold THEN Reset
    ELSE IF first.is_underline /\ ~next.is_underline THEN Reset
    ELSE IF first.foreground # "None" /\ first.foreground # next.foreground
         THEN Reset
    ELSE ExtraStyles(
           [is_bold |-> first.is_bold # next.is_bold,
            is_underline |-> first.is_underline # next.is_underline,
            foreground |-> IF first.foreground # next.foreground
                           THEN next.foreground ELSE "None"])

(***************************************************************************)
(* The values painted.  A value's Display writes its own text, whatever    *)
(* the style; the texts hold no escape bytes.                              *)
(***************************************************************************)
Letters == <<"a", "b", "c", "d", "e", "f">>

\* The texts of n values: a letter each, or every other one empty.
Texts(n) ==
    { [k \in 1..n |-> <<Letters[k]>>],
      [k \in 1..n |-> IF k % 2 = 1 THEN <<>> ELSE <<Letters[k]>>] }

\* Style::paint
paint(s, input) == [style |-> s, display |-> input]

(***************************************************************************)
(* The terminal: it reads the tokens in order and keeps the attributes     *)
(* that are on.  Inside an escape sequence each SGR code acts: 0 turns     *)
(* everything off, 1 and 4 turn bold and underline on, 31 and 34 set the   *)
(* foreground colour.  Everything outside an escape sequence is text.      *)
(***************************************************************************)
Sgr(st, code) ==
    CASE code = "0"  -> default
      [] code = "1"  -> [st EXCEPT !.is_bold = TRUE]
      [] code = "4"  -> [st EXCEPT !.is_underline = TRUE]
      [] code = "31" -> [st EXCEPT !.foreground = "Red"]
      [] code = "34" -> [st EXCEPT !.foreground = "Blue"]
      [] OTHER       -> st

RECURSIVE Interp(_, _, _, _)
Interp(toks, k, st, esc) ==
    IF k > Len(toks) THEN st
    ELSE IF esc
         THEN IF toks[k] = "m" THEN Interp(toks, k + 1, st, FALSE)
              ELSE Interp(toks, k + 1, Sgr(st, toks[k]), TRUE)
         ELSE Interp(toks, k + 1, st, toks[k] = "CSI")

\* The style the terminal shows after reading toks while showing st.
Read(st, toks) == Interp(toks, 1, st, FALSE)

\* The style the terminal shows after reading toks from the unstyled state.
Terminal(toks) == Read(default, toks)

VARIABLES
    seq,      \* the slice self.0 of ANSIDisplaySlice
    pc,       \* the position of ANSIDisplaySlice::fmt
    i,        \* the fragment fmt is at (window[0] of the next window)
    out,      \* what the sink of ANSIDisplaySlice::fmt has accepted
    term,     \* the style the terminal reading the sink shows
    log,      \* the accepted writes, one record each, with the style the
              \* terminal showed when the write came (history)
    calls,    \* the writes issued to the sink
    failed,   \* the sink has returned an error
    result,   \* what fmt returned: "none" while it runs, "Ok" or "Err"
    dpc,      \* the position of ANSIDisplay::fmt, rendering seq[1] alone
    dout,     \* what the sink of ANSIDisplay::fmt has accepted
    dcalls,   \* the writes issued to that sink
    dfailed,  \* that sink has returned an error
    dresult   \* what ANSIDisplay::fmt returned

slice == <<pc, i, out, term, log, calls, failed, result>>
single == <<dpc, dout, dcalls, dfailed, dresult>>
vars == <<seq, slice, single>>

Init ==
    /\ \E n \in 0..MaxLen :
         \E styles \in [1..n -> Style], texts \in Texts(n) :
            seq = [k \in 1..n |-> paint(styles[k], texts[k])]
    /\ pc = "first"
    /\ i = 0
    /\ out = <<>>
    /\ term = default
    /\ log = <<>>
    /\ calls = 0
    /\ failed = FALSE
    /\ result = "none"
    /\ dpc = "prefix"
    /\ dout = <<>>
    /\ dcalls = 0
    /\ dfailed = FALSE
    /\ dresult = "none"

(***************************************************************************)
(* The pieces of ANSIDisplaySlice::fmt and ANSIDisplay::fmt.               *)
(***************************************************************************)

\* The `?` left out: the error of the write is dropped and fmt goes on.
QuestionIgnored(ok, pcOk) == pcOk

\* The `?` after a write: go on when the sink accepted, return at once
\* when it returned an error.
Question(ok, pcOk) == IF ok THEN pcOk ELSE "done"

\* The empty slice reported as an error.
FirstReturnErr(s) == IF s = <<>> THEN "Err" ELSE "none"

\* match self.0.first(): None => return Ok(()), Some(f) => go on.
FirstReturn(s) == IF s = <<>> THEN "Ok" ELSE "none"

\* first.style.prefix()
FirstText(s) == prefix(s[1].style)

\* window[0].display written in the loop, where window[1].display is meant.
ValueTextWindow0(s, k) == s[IF k > 1 THEN k - 1 ELSE k].display

\* first.display and window[1].display: the value of fragment k.
ValueText(s, k) == s[k].display

\* The two styles of the window handed over in the wrong order.
WindowDifferenceSwapped(s, k) == between(s[k + 1].style, s[k].style)

\* Difference::between(&window[0].style, &window[1].style), the window
\* being (s[k], s[k + 1]).
WindowDifference(s, k) == between(s[k].style, s[k + 1].style)

\* The ExtraStyles arm writing nothing.
ExtraTextNone(d) == <<>>

\* ExtraStyles(style) => style.prefix()
ExtraText(d) == prefix(d.style)

\* The Reset arm writing RESET alone.
ResetPrefixTextNone(s, k) == <<>>

\* Reset => RESET, then window[1].style.prefix()
ResetPrefixText(s, k) == prefix(s[k + 1].style)

\* The trailing reset decided by the first fragment.
LastNeedsResetFirst(s) == ~is_plain(s[1].style)

\* The trailing reset written whatever the last style.
LastNeedsResetAlways(s) == TRUE

\* !last.style.is_plain()
LastNeedsReset(s) == ~is_plain(s[Len(s)].style)

\* RESET written after the value whatever the style.
DisplaySuffixAlways(d) == RESET

\* self.style.suffix() of ANSIDisplay::fmt
DisplaySuffixText(d) == suffix(d.style)

\* One write to the sink of ANSIDisplaySlice::fmt, followed by `?`.
Write(kind, frag, text, pcOk, iOk) ==
    \E ok \in BOOLEAN :
       /\ calls' = calls + 1
       /\ out' = IF ok THEN out \o text ELSE out
       /\ term' = IF ok THEN Read(term, text) ELSE term
       /\ log' = IF ok
                 THEN Append(log, [kind |-> kind, frag |-> frag,
                                   text |-> text, term |-> term])
                 ELSE log
       /\ failed' = (failed \/ ~ok)
       /\ result' = IF ok THEN result ELSE "Err"
       /\ pc' = Question(ok, pcOk)
       /\ i' = IF ok THEN iOk ELSE i
       /\ UNCHANGED <<seq, single>>

\* let first = match self.0.first() { None => return Ok(()), Some(f) => f }
First ==
    /\ pc = "first"
    /\ result' = FirstReturn(seq)
    /\ pc' = IF result' = "none" THEN "prefix" ELSE "done"
    /\ UNCHANGED <<seq, i, out, term, log, calls, failed, single>>

\* write!(f, "{}", first.style.prefix())?
FirstPrefix ==
    /\ pc = "prefix"
    /\ Write("prefix", 1, FirstText(seq), "value", 1)

\* first.display.fmt(f)? and window[1].display.fmt(f)?
Value ==
    /\ pc = "value"
    /\ Write("value", i, ValueText(seq, i),
             IF i < Len(seq) THEN "window" ELSE "last", i)

\* match Difference::between(&window[0].style, &window[1].style):
\*     ExtraStyles(style) => write!(f, "{}", style.prefix())?
WindowExtraStyles ==
    /\ pc = "window"
    /\ LET d == WindowDifference(seq, i)
       IN  /\ d.tag = "ExtraStyles"
           /\ Write("extra", i + 1, ExtraText(d), "value", i + 1)

\*     Reset => write!(f, "{}{}", RESET, window[1].style.prefix())?
\* The two arguments are written one after the other: first RESET,
WindowReset ==
    /\ pc = "window"
    /\ WindowDifference(seq, i).tag = "Reset"
    /\ Write("reset", i + 1, RESET, "window_prefix", i)

\* then window[1].style.prefix().
WindowResetPrefix ==
    /\ pc = "window_prefix"
    /\ Write("reset_prefix", i + 1, ResetPrefixText(seq, i), "value", i + 1)

\*     NoDifference => {/* Do nothing! */}
WindowNoDifference ==
    /\ pc = "window"
    /\ WindowDifference(seq, i).tag = "NoDifference"
    /\ pc' = "value"
    /\ i' = i + 1
    /\ UNCHANGED <<seq, out, term, log, calls, failed, result, single>>

\* if let Some(last) = self.0.last() { if !last.style.is_plain() {
\*     write!(f, "{}", RESET)? } }
LastReset ==
    /\ pc = "last"
    /\ LastNeedsReset(seq)
    /\ Write("last_reset", Len(seq), RESET, "return", i)

LastPlain ==
    /\ pc = "last"
    /\ ~LastNeedsReset(seq)
    /\ pc' = "return"
    /\ UNCHANGED <<seq, i, out, term, log, calls, failed, result, single>>

\* Ok(())
Return ==
    /\ pc = "return"
    /\ pc' = "done"
    /\ result' = "Ok"
    /\ UNCHANGED <<seq, i, out, term, log, calls, failed, single>>

(***************************************************************************)
(* ANSIDisplay::fmt on the fragment of a slice of one.                     *)
(***************************************************************************)

\* One write to the sink of ANSIDisplay::fmt.  The first two are followed
\* by `?`; the result of the last one is what fmt returns.
DisplayWrite(text, pcOk) ==
    \E ok \in BOOLEAN :
       /\ dcalls' = dcalls + 1
       /\ dout' = IF ok THEN dout \o text ELSE dout
       /\ dfailed' = (dfailed \/ ~ok)
       /\ dpc' = Question(ok, pcOk)
       /\ dresult' = IF ~ok THEN "Err"
                     ELSE IF dpc' = "done" THEN "Ok" ELSE dresult
       /\ UNCHANGED <<seq, slice>>

\* write!(f, "{}", self.style.prefix())?
DisplayPrefix ==
    /\ Len(seq) = 1
    /\ dpc = "prefix"
    /\ DisplayWrite(prefix(seq[1].style), "value")

\* self.display.fmt(f)?
DisplayValue ==
    /\ dpc = "value"
    /\ DisplayWrite(seq[1].display, "suffix")

\* write!(f, "{}", self.style.suffix())
DisplaySuffix ==
    /\ dpc = "suffix"
    /\ DisplayWrite(DisplaySuffixText(seq[1]), "done")

Next ==
    \/ First
    \/ FirstPrefix
    \/ Value
    \/ WindowExtraStyles
    \/ WindowReset
    \/ WindowResetPrefix
    \/ WindowNoDifference
    \/ LastReset
    \/ LastPlain
    \/ Return
    \/ DisplayPrefix
    \/ DisplayValue
    \/ DisplaySuffix

Spec == Init /\ [][Next]_vars

RECURSIVE Strip(_, _, _)
Strip(toks, k, esc) ==
    IF k > Len(toks) THEN <<>>
    ELSE IF esc THEN Strip(toks, k + 1, toks[k] # "m")
         ELSE IF toks[k] = "CSI" THEN Strip(toks, k + 1, TRUE)
              ELSE <<toks[k]>> \o Strip(toks, k + 1, FALSE)

\* toks without its escape sequences.
StripControls(toks) == Strip(toks, 1, FALSE)

RECURSIVE ConcatRange(_, _, _)
\* The texts of the writes l[a], ..., l[b], one after the other.
ConcatRange(l, a, b) ==
    IF a > b THEN <<>> ELSE l[a].text \o ConcatRange(l, a + 1, b)

\* The style the terminal showed once write k of the log was read.
TermAfter(k) == IF k < Len(log) THEN log[k + 1].term ELSE term

RECURSIVE ConcatValues(_, _)
\* The texts of the first n values of the slice s, one after the other.
ConcatValues(s, n) ==
    IF n = 0 THEN <<>> ELSE ConcatValues(s, n - 1) \o s[n].display

\* The places of toks where the universal reset starts.
ResetsIn(toks) ==
    {p \in 1..Len(toks) : p + 2 <= Len(toks) /\ SubSeq(toks, p, p + 2) = RESET}

EndsWithReset(toks) ==
    Len(toks) >= 3 /\ SubSeq(toks, Len(toks) - 2, Len(toks)) = RESET

IsValue(e) == e.kind = "value"

Kinds == {log[k].kind : k \in 1..Len(log)}

AllPlain == \A k \in 1..Len(seq) : is_plain(seq[k].style)

\* The log place of the value of fragment k.
ValueAt(k) == CHOOSE p \in 1..Len(log) : IsValue(log[p]) /\ log[p].frag = k

ValueWritten(k) == \E p \in 1..Len(log) : IsValue(log[p]) /\ log[p].frag = k

(***************************************************************************)
(* The claims.                                                             *)
(***************************************************************************)

\* C1: visual equivalence.  Whenever the value text of a fragment is
\* written, the attributes the terminal has on at that moment are exactly
\* the attributes of that fragment's style (the terminal being the one that
\* has read all the sink accepted, from the unstyled state).
C1_VisualEquivalence ==
    /\ term = Terminal(out)
    /\ \A k \in 1..Len(log) :
          IsValue(log[k]) =>
             Attrs(log[k].term) = Attrs(seq[log[k].frag].style)

C1_Witness ==
    /\ result = "Ok"
    /\ Len(seq) = 3
    /\ {"reset", "extra"} \subseteq Kinds

\* C2: no leaked styling.  When fmt returns Ok the terminal has no
\* attribute on, and the trailing reset was written exactly when the slice
\* is not empty and its last style is not plain (and then once).
C2_NoLeak ==
    result = "Ok" =>
       /\ term = Terminal(out)
       /\ Attrs(term) = {}
       /\ ("last_reset" \in Kinds) <=>
             (seq # <<>> /\ ~is_plain(seq[Len(seq)].style))
       /\ Cardinality({k \in 1..Len(log) : log[k].kind = "last_reset"}) <= 1
       /\ "last_reset" \in Kinds => log[Len(log)].kind = "last_reset"

C2_Witness ==
    /\ result = "Ok"
    /\ Len(seq) = 3
    /\ ~is_plain(seq[2].style)
    /\ is_plain(seq[3].style)
    /\ "last_reset" \notin Kinds
    /\ EndsWithReset(SubSeq(out, 1, Len(out) - Len(seq[3].display)))

\* C3: a slice whose styles are all plain is rendered with no control
\* byte: the output is the value texts one after the other.
C3_PlainNoControl ==
    AllPlain =>
       /\ \A p \in 1..Len(out) : out[p] # "CSI"
       /\ result = "Ok" => out = ConcatValues(seq, Len(seq))

C3_Witness ==
    /\ AllPlain
    /\ Len(seq) = 2
    /\ result = "Ok"
    /\ out = <<"a", "b">>

\* C4: one fragment rendered alone (ANSIDisplay::fmt) or as a slice of one
\* (ANSIDisplaySlice::fmt) ends with the universal reset when its style is
\* not plain, holds no reset when its style is plain, and the two outputs
\* are equal.
C4_SingleFragment ==
    Len(seq) = 1 =>
       LET plain == is_plain(seq[1].style)
           Good(o) == IF plain THEN ResetsIn(o) = {} ELSE EndsWithReset(o)
       IN  /\ result = "Ok" => Good(out)
           /\ dresult = "Ok" => Good(dout)
           /\ (result = "Ok" /\ dresult = "Ok") => out = dout

C4_Witness ==
    /\ Len(seq) = 1
    /\ ~is_plain(seq[1].style)
    /\ result = "Ok"
    /\ dresult = "Ok"
    /\ EndsWithReset(dout)

\* C5: rendering the empty slice issues no write to the sink and returns
\* Ok.
C5_Empty ==
    seq = <<>> =>
       /\ calls = 0
       /\ out = <<>>
       /\ result # "Err"
       /\ pc = "done" => result = "Ok"

C5_Witness ==
    /\ seq = <<>>
    /\ pc = "done"
    /\ result = "Ok"

\* C6: once a write has failed, fmt has returned the error, and no write
\* is issued to that sink any more; what the sink accepted stays as it is.
C6_ErrorStops ==
    [][ /\ failed => (calls' = calls /\ out' = out
                       /\ result = "Err" /\ result' = "Err")
        /\ (~failed /\ failed') => (out' = out /\ result' = "Err")
        /\ dfailed => (dcalls' = dcalls /\ dout' = dout
                        /\ dresult = "Err" /\ dresult' = "Err")
        /\ (~dfailed /\ dfailed') => (dout' = dout /\ dresult' = "Err")
      ]_vars

C6_Witness ==
    /\ failed
    /\ result = "Err"
    /\ pc = "done"
    /\ Len(seq) = 3
    /\ log # <<>>
    /\ log[Len(log)].kind = "extra"
    /\ term # default

\* C7: strict left-to-right emission.  The values are written once each
\* and in the order of the slice, the control output of the transition into
\* a fragment lies between the value before it and its own value, and the
\* output without its control sequences is the value texts in order.
C7_LeftToRight ==
    LET vals == SelectSeq(log, IsValue)
    IN  /\ \A j \in 1..Len(vals) :
              vals[j].frag = j /\ vals[j].text = seq[j].display
        /\ result = "Ok" => Len(vals) = Len(seq)
        /\ \A a \in 1..(Len(log) - 1) :
              /\ log[a].frag <= log[a + 1].frag
              /\ log[a].kind # "last_reset"
              /\ (IsValue(log[a]) /\ log[a + 1].frag = log[a].frag)
                    => log[a + 1].kind = "last_reset"
        /\ StripControls(out) = ConcatValues(seq, Len(vals))

C7_Witness ==
    /\ result = "Ok"
    /\ Len(seq) = 3
    /\ StripControls(out) = <<"a", "b", "c">>
    /\ Len(out) > 9

\* C8: Difference::between splits the ordered pairs of styles in three:
\* NoDifference exactly for equal styles, ExtraStyles(delta) exactly when
\* next has every attribute of previous and more, delta being the
\* attributes of next that previous lacks, and Reset for every other pair,
\* among them every step from a style that is not plain to the plain one.
\* Stated of the window fmt is at, (seq[i], seq[i + 1]).
C8_BetweenPartition ==
    pc \in {"window", "window_prefix"} =>
       LET previous == seq[i].style
           next == seq[i + 1].style
           d == between(previous, next)
           strict == Attrs(previous) \subseteq Attrs(next)
                     /\ Attrs(previous) # Attrs(next)
       IN  /\ d.tag \in {"NoDifference", "ExtraStyles", "Reset"}
           /\ d.tag = "NoDifference" <=> previous = next
           /\ d.tag = "ExtraStyles" <=> strict
           /\ d.tag = "ExtraStyles" =>
                 /\ d.style \in Style
                 /\ Attrs(d.style) = Attrs(next) \ Attrs(previous)
                 /\ Attrs(d.style) # {}
           /\ d.tag = "Reset" <=> (previous # next /\ ~strict)
           /\ (Attrs(previous) \ Attrs(next) # {}) => d.tag = "Reset"
           /\ (~is_plain(previous) /\ is_plain(next)) => d.tag = "Reset"

C8_Witness ==
    /\ pc = "window_prefix"
    /\ Len(seq) = 3
    /\ seq[1].style.foreground = "Red"
    /\ seq[2].style.foreground = "Blue"
    /\ between(seq[2].style, seq[3].style).tag = "ExtraStyles"

\* C9: what is written between the values of two neighbouring fragments is
\* decided by Difference::between of their styles: nothing for
\* NoDifference, the prefix of delta for ExtraStyles(delta), the universal
\* reset and then the prefix of the next style for Reset.  Bold "a", bold
\* and underlined "b", plain "c" are rendered as: bold prefix, "a",
\* underline prefix, "b", reset, "c".
C9_Transitions ==
    /\ out = ConcatRange(log, 1, Len(log))
    /\ \A k \in 1..(Len(seq) - 1) :
          ValueWritten(k + 1) =>
             LET d == between(seq[k].style, seq[k + 1].style)
                 written == ConcatRange(log, ValueAt(k) + 1, ValueAt(k + 1) - 1)
             IN  written = CASE d.tag = "NoDifference" -> <<>>
                             [] d.tag = "ExtraStyles" -> prefix(d.style)
                             [] d.tag = "Reset" ->
                                   RESET \o prefix(seq[k + 1].style)
    /\ ( /\ result = "Ok"
         /\ Len(seq) = 3
         /\ Attrs(seq[1].style) = {"bold"}
         /\ Attrs(seq[2].style) = {"bold", "underline"}
         /\ Attrs(seq[3].style) = {} )
       => out = <<"CSI", "1", "m">> \o seq[1].display
                \o <<"CSI", "4", "m">> \o seq[2].display
                \o <<"CSI", "0", "m">> \o seq[3].display

C9_Witness ==
    /\ result = "Ok"
    /\ Len(seq) = 3
    /\ Attrs(seq[1].style) = {"bold"}
    /\ Attrs(seq[2].style) = {"bold", "underline"}
    /\ Attrs(seq[3].style) = {}
    /\ out = <<"CSI", "1", "m", "a", "CSI", "4", "m", "b", "CSI", "0", "m", "c">>

\* C10: no redundant control output.  A universal reset is written only
\* while the terminal has an attribute on, never two in a row; an
\* ExtraStyles prefix turns on an attribute that was off; and a finished
\* rendering holds one reset for every window classified Reset, plus one
\* when the last style is not plain.
C10_NoRedundant ==
    /\ \A k \in 1..Len(log) :
          log[k].kind \in {"reset", "last_reset"} =>
             Attrs(log[k].term) # {}
    /\ LET resets == ResetsIn(out)
       IN  \A p \in resets : p + 3 \notin resets
    /\ \A k \in 1..Len(log) :
          log[k].kind = "extra" =>
             LET before == Attrs(log[k].term)
                 after == Attrs(TermAfter(k))
             IN  before \subseteq after /\ before # after
    /\ result = "Ok" =>
          Cardinality(ResetsIn(out)) =
             Cardinality({k \in 1..(Len(seq) - 1) :
                             between(seq[k].style, seq[k + 1].style).tag = "Reset"})
             + (IF seq # <<>> /\ ~is_plain(seq[Len(seq)].style) THEN 1 ELSE 0)

C10_Witness ==
    /\ result = "Ok"
    /\ Len(seq) = 3
    /\ Cardinality(ResetsIn(out)) = 3
    /\ "extra" \notin Kinds
    /\ seq[1].display = <<>>

====
